---- MODULE Spec2Model ----
(***************************************************************************)
(* The analysis request lifecycle of the backend: the HTTP handler         *)
(* analizar_codigo (analysis_router.py), the request-scoped session of     *)
(* get_db (database.py), AnalysisService.analizar_codigo with              *)
(* _persist_analysis and _update_user_counters (analysis_service.py) and   *)
(* GeminiClient.analyze_code (gemini_client.py).                           *)
(*                                                                         *)
(* The database is PostgreSQL under READ COMMITTED: `users` and `analyses` *)
(* are the committed tables; every request works in its own session and    *)
(* transaction (`sess`), whose flushed INSERT and pending UPDATE become     *)
(* visible to others only at COMMIT.                                       *)
(***************************************************************************)
EXTENDS Integers, FiniteSets, Sequences, TLC

\* ---------------------------------------------------------------- bounds
NReq == 2                \* requests that can be in flight together
MaxRequests == 2         \* requests started in one behaviour of SpecSeq
MaxQuotaRequests == 6    \* requests started in one behaviour of SpecQuota
MaxClock == 3            \* last clock tick
TicksPerDay == 2         \* clock ticks in one calendar day
NUsers == 2              \* rows of the users table
MaxHistoryRequests == 3  \* requests started in one behaviour of SpecHistory
MaxLimit == 2            \* largest page size asked for
MaxOffset == 3           \* largest offset asked for
MaxTextLen == 4          \* pieces in a gateway text given to the extractors
NCalls == 3              \* calls of atender in one behaviour
ExtraRoleIds == 1        \* role ids beside those of DEFAULT_ROLES

\* ------------------------------------------------------- program constants
MAX_CODE_LENGTH == 40000
DEFAULT_DAILY_LIMIT == 5
FREE_MAX_ANALYSES_PER_DAY == 5
PRO_MAX_ANALYSES_PER_DAY == 100
CUSTOM_MAX_ANALYSES_PER_DAY == 0
\* codigo[:100] + "...": the length of the slice and of the ellipsis.
SNIPPET_LENGTH == 100
ELLIPSIS_LENGTH == 3
\* TZ=America/Caracas of the deployment lies behind UTC by a part of a day:
\* here one clock tick.
TzShift == 1

None == 0 - 1

Req == 1..NReq
UserIds == 1..NUsers

\* ---------------------------------------------------------------- clocks
\* utc_now(): the instant, as a UTC timestamp.
utc_now(t) == t
\* datetime.now(): the naive wall-clock reading in the server's zone.
datetime_now(t, zone) == t - zone
\* datetime.date() / date.today(): the calendar day of a timestamp. The
\* wall-clock reading stored in last_analysis_date is taken to come back from
\* the database as it was written.
DateOf(ts) == ts \div TicksPerDay
date_today(t, zone) == DateOf(datetime_now(t, zone))

\* ----------------------------------------------------------------- roles
\* DEFAULT_ROLES: user 1 is on the free plan, every other user on the
\* custom plan (own API key, 0 = no cap).
RoleLimit(u) == IF u = 1 THEN FREE_MAX_ANALYSES_PER_DAY ELSE CUSTOM_MAX_ANALYSES_PER_DAY

\* The rows of the roles table (DEFAULT_ROLES), and the role of a user whose
\* role_id is NULL.
Role(name, max) == [name |-> name, max_analyses_per_day |-> max]
Roles ==
  { Role("free", FREE_MAX_ANALYSES_PER_DAY), Role("pro", PRO_MAX_ANALYSES_PER_DAY),
    Role("custom", CUSTOM_MAX_ANALYSES_PER_DAY), Role("admin", CUSTOM_MAX_ANALYSES_PER_DAY) }
NoRole == Role("none", None)

\* DEFAULT_ROLES with the fixed ids of RoleID, as rows of the roles table.
RoleRow(id, name, max) == [id |-> id, name |-> name, max_analyses_per_day |-> max]
DEFAULT_ROLES ==
  << RoleRow(1, "free", FREE_MAX_ANALYSES_PER_DAY),
     RoleRow(2, "pro", PRO_MAX_ANALYSES_PER_DAY),
     RoleRow(3, "custom", CUSTOM_MAX_ANALYSES_PER_DAY),
     RoleRow(4, "admin", CUSTOM_MAX_ANALYSES_PER_DAY) >>

\* users.gemini_api_key_encrypted: NULL, a token that decrypts to the user's
\* key, or a token that no longer decrypts (InvalidToken).
NoStoredKey == "null"
StoredKeys == {"valid-token", "invalid-token"}

\* Calls of AtencionService.atender, and a call that has not started.
Calls == 1..NCalls
NoCall == [pc |-> "idle", db |-> FALSE, customer_name |-> "", client |-> None,
           success |-> FALSE, client_id |-> None]

\* ---------------------------------------------------------------- inputs
\* A submission: its length and whether it is blank (strip() is empty).
Code(len, blank) == [len |-> len, blank |-> blank]
CodeInputs ==
  { Code(0, TRUE), Code(3, TRUE),
    Code(MAX_CODE_LENGTH, FALSE), Code(MAX_CODE_LENGTH + 1, FALSE) }
OkCode == Code(MAX_CODE_LENGTH, FALSE)

Callers == {"router", "direct"}

\* The user_api_key argument: absent (None), or the user's decrypted key; and
\* settings.GEMINI_API_KEY, the key of the service's own client.
NoKey == "absent"
UserKey == "user-key"
SystemKey == "system-key"
KeyInputs == {NoKey, UserKey}

\* What the upstream API does with one chat-completion call.
ErrDetails == {"timeout", "http503"}
ModelText(score, improved) ==
  [kind |-> "model", score |-> score, improved |-> improved, detail |-> "none"]
NoText == [kind |-> "absent", score |-> None, improved |-> FALSE, detail |-> "none"]
Upstream(ok, text, detail) == [ok |-> ok, text |-> text, detail |-> detail]
UpstreamOk == { Upstream(TRUE, ModelText(s, s # None), "none") : s \in {85, 150} }
UpstreamFail == { Upstream(FALSE, NoText, d) : d \in ErrDetails }
UpstreamAll == UpstreamOk \cup UpstreamFail
GoodUpstream == { Upstream(TRUE, ModelText(85, TRUE), "none") }
\* Answers with and without a score line and an improved-code block.
UpstreamExtract ==
  { Upstream(TRUE, ModelText(s, i), "none") : s \in {None, 85}, i \in BOOLEAN }

\* ------------------------------------------------------------ the tables
NewUser == [analyses_today |-> 0, total_analyses |-> 0, last_analysis_date |-> None]
NoUser == [analyses_today |-> None, total_analyses |-> None, last_analysis_date |-> None]
NoRow == [id |-> None, user_id |-> None, created_at |-> None, quality_score |-> None,
          code_improved |-> None, analysis_result |-> NoText]

NoEnvelope == [success |-> FALSE, error |-> "pending", analisis |-> NoText, analysis_id |-> None]
FailureEnvelope(err) ==
  [success |-> FALSE, error |-> err, analisis |-> NoText, analysis_id |-> None]
SuccessEnvelope(text, id) ==
  [success |-> TRUE, error |-> "none", analisis |-> text, analysis_id |-> id]

VARIABLES
  clock,      \* the UTC instant
  tz,         \* how far the server's zone lies behind UTC
  users,      \* committed users table: id -> counters
  analyses,   \* committed analyses table: a set of rows
  nextId,     \* the analyses id sequence
  started,    \* requests started so far
  pc,         \* per slot: where the request is
  req,        \* per slot: the request's inputs
  sess,       \* per slot: the session (identity map, flushed row, dirty user)
  result,     \* per slot: what analizar_codigo returned or raised
  obs,        \* per slot: what happened to the request, for the properties
  view,       \* the latest read request (statistics, history) and its answer
  roles,      \* committed roles table: a set of rows
  gemini_api_key_encrypted,  \* users.gemini_api_key_encrypted: id -> stored key
  clients,    \* committed clients table: the names, in id order
  tickets,    \* committed tickets table: the client ids, in id order
  atencion    \* per call of AtencionService.atender: where it is

vars == <<clock, tz, users, analyses, nextId, started, pc, req, sess, result, obs, view,
          roles, gemini_api_key_encrypted, clients, tickets, atencion>>

\* The tables and calls beside the analysis flow.
support == <<roles, gemini_api_key_encrypted, clients, tickets, atencion>>

NoReq == [caller |-> "none", usuario_id |-> None, db |-> FALSE, code |-> Code(0, TRUE),
          user_api_key |-> NoKey]
NoSess == [user |-> NoUser, loaded |-> NoUser, text |-> NoText, row |-> NoRow,
           dirty |-> FALSE]
NoResult == [raised |-> "none", envelope |-> NoEnvelope]
NoObs == [gateway_calls |-> 0, credential |-> NoKey,
          gateway_failed |-> FALSE, detail |-> "none",
          persist_failed |-> FALSE, user_missing |-> FALSE, updated_at |-> None, today_at_update |-> None,
          row_committed |-> FALSE, counters_committed |-> FALSE, http |-> 0,
          codigo_len |-> None]

NoView == [kind |-> "none", usuario_id |-> None, input |-> <<>>, data |-> <<>>]

Init ==
  /\ clock = TicksPerDay
  /\ tz \in {0, TzShift}
  /\ users = [u \in UserIds |-> NewUser]
  /\ analyses = {}
  /\ nextId = 1
  /\ started = 0
  /\ pc = [r \in Req |-> "idle"]
  /\ req = [r \in Req |-> NoReq]
  /\ sess = [r \in Req |-> NoSess]
  /\ result = [r \in Req |-> NoResult]
  /\ obs = [r \in Req |-> NoObs]
  /\ view = NoView
  /\ roles = { DEFAULT_ROLES[i] : i \in DOMAIN DEFAULT_ROLES }
  /\ gemini_api_key_encrypted = [u \in UserIds |-> NoStoredKey]
  /\ clients = <<>>
  /\ tickets = <<>>
  /\ atencion = [c \in Calls |-> NoCall]


\* ------------------------------------------------------- pure operations
\* AnalysisRequest.codigo: Field(min_length=1, max_length=40000).
SchemaAccepts(code) == code.len >= 1 /\ code.len <= MAX_CODE_LENGTH

\* Variants of the validation with one slip each: a length check that also
\* refuses the maximum length, and an emptiness check without strip().
ValidateCode_max_exclusive(code) ==
  IF code.len = 0 \/ code.blank THEN "empty"
  ELSE IF code.len >= MAX_CODE_LENGTH THEN "toolong"
  ELSE "ok"

ValidateCode_no_strip(code) ==
  IF code.len = 0 THEN "empty"
  ELSE IF code.len > MAX_CODE_LENGTH THEN "toolong"
  ELSE "ok"

\* analizar_codigo, lines 119-134: the validation verdict.
ValidateCode(code) ==
  IF code.len = 0 \/ code.blank THEN "empty"
  ELSE IF code.len > MAX_CODE_LENGTH THEN "toolong"
  ELSE "ok"

\* The length of the "codigo" field of a failure envelope: `codigo or ""` for
\* empty input, codigo[:100] + "..." for over-length input, and in the except
\* clause codigo[:100] + "..." if len(codigo) > 100 else codigo.
failure_codigo(err, code) ==
  IF err = "empty" THEN code.len
  ELSE IF err = "toolong" THEN SNIPPET_LENGTH + ELLIPSIS_LENGTH
  ELSE IF code.len > SNIPPET_LENGTH THEN SNIPPET_LENGTH + ELLIPSIS_LENGTH
  ELSE code.len

\* Submissions around the snippet length: empty, blank and short, blank and
\* longer than a snippet, short, as long as a snippet, valid and long, and
\* over-length.
SnippetCodes ==
  { Code(0, TRUE), Code(3, TRUE), Code(SNIPPET_LENGTH + ELLIPSIS_LENGTH + 1, TRUE),
    Code(3, FALSE), Code(SNIPPET_LENGTH, FALSE), OkCode, Code(MAX_CODE_LENGTH + 1, FALSE) }

\* GeminiClient.analyze_code: the text it hands back for an upstream outcome.
\* Its except clause turns every failure into "Error en el analisis: <e>".
ErrorText(detail) == [kind |-> "error", score |-> None, improved |-> FALSE, detail |-> detail]
analyze_code(upstream) ==
  IF upstream.ok THEN upstream.text ELSE ErrorText(upstream.detail)

\* select(func.count(Analysis.id)).where(Analysis.user_id == usuario_id).
count_analyses(table, usuario_id) ==
  Cardinality({ a \in table : a.user_id = usuario_id })

\* The orders in which ORDER BY created_at DESC can deliver the user's rows:
\* rows with equal created_at come in any order.
DescOrders(table, usuario_id) ==
  LET rows == { a \in table : a.user_id = usuario_id }
      n == Cardinality(rows)
  IN { s \in [1..n -> rows] :
         /\ \A i, j \in 1..n : i # j => s[i] # s[j]
         /\ \A i, j \in 1..n : i < j => s[i].created_at >= s[j].created_at }

\* A page cut with the limit applied before the offset.
history_page_limit_first(order, limit, offset) ==
  LET last == IF limit < Len(order) THEN limit ELSE Len(order)
  IN SubSeq(order, offset + 1, last)

\* .limit(limit).offset(offset) on the ordered rows: LIMIT ... OFFSET skips
\* `offset` rows and delivers at most `limit`.
history_page(order, limit, offset) ==
  LET last == IF offset + limit < Len(order) THEN offset + limit ELSE Len(order)
  IN SubSeq(order, offset + 1, last)

\* The items of obtener_historial, lines 323-337 (without codigo_snippet and
\* modelo_usado).
history_items(page) ==
  [i \in 1..Len(page) |->
     [id |-> page[i].id, score |-> page[i].quality_score,
      created_at |-> page[i].created_at]]

\* Statistics whose remaining count is the plain difference.
obtener_estadisticas_no_clamp(user, role) ==
  LET limite_diario == IF role # NoRole THEN role.max_analyses_per_day
                       ELSE DEFAULT_DAILY_LIMIT
  IN [total_analisis |-> user.total_analyses,
      analisis_hoy |-> user.analyses_today,
      limite_diario |-> limite_diario,
      analisis_restantes |-> limite_diario - user.analyses_today]

\* obtener_estadisticas, lines 281-294, for a user row and the role loaded
\* with it (score_promedio is left out: it has no part in the limits).
obtener_estadisticas(user, role) ==
  LET limite_diario == IF role # NoRole THEN role.max_analyses_per_day
                       ELSE DEFAULT_DAILY_LIMIT
      analisis_hoy == user.analyses_today
      diff == limite_diario - analisis_hoy
  IN [total_analisis |-> user.total_analyses,
      analisis_hoy |-> analisis_hoy,
      limite_diario |-> limite_diario,
      analisis_restantes |-> IF diff > 0 THEN diff ELSE 0]

\* A client choice that never leaves the service's own client.
gateway_credential_system_only(user_api_key) == SystemKey

\* analizar_codigo, line 140, and GeminiClient.__init__: the key the call to
\* the upstream API is made with.
gateway_credential(user_api_key) ==
  IF user_api_key # NoKey THEN user_api_key ELSE SystemKey

\* _extract_score on the modelled text: the captured number, or None.
extract_score(text) == IF text.kind = "model" THEN text.score ELSE None

\* _extract_improved_code on the modelled text: the captured block (any of
\* the three patterns matched), or None.
ImprovedBlock == 1
extract_improved_code(text) ==
  IF text.kind = "model" /\ text.improved THEN ImprovedBlock ELSE None

\* ------------------------------------------------ the extractors on texts
\* A gateway text as a sequence of pieces: the three heading forms
\* "## ✨ Código Mejorado" (h1), "✨ Código Mejorado" (h2), "Código Mejorado"
\* (h3), a complete ```python block with body b1 or b2, a complete ```js
\* block, an unterminated ```python fence with body b3, and other prose.
TextPieces == {"h1", "h2", "h3", "py1", "py2", "js", "open", "txt"}
Texts == UNION { [1..n -> TextPieces] : n \in 0..MaxTextLen }

\* The characters of a piece, as far as the patterns can tell them apart:
\* ws is whitespace, fpy is "```python", fjs is "```js", fence is "```".
PieceChars(piece) ==
  CASE piece = "py1" -> <<"fpy", "ws", "b1", "ws", "fence">>
    [] piece = "py2" -> <<"fpy", "ws", "b2", "ws", "fence">>
    [] piece = "js" -> <<"fjs", "ws", "jsbody", "ws", "fence">>
    [] piece = "open" -> <<"fpy", "ws", "b3", "ws">>
    [] piece = "obj" -> <<"lb", "x", "rb">>
    [] OTHER -> <<piece>>

RECURSIVE Flatten(_)
Flatten(text) ==
  IF Len(text) = 0 THEN <<>>
  ELSE PieceChars(text[1]) \o Flatten(Tail(text))

\* str.strip() and the \s* around the capture group.
RECURSIVE Strip(_)
Strip(s) ==
  IF Len(s) = 0 THEN s
  ELSE IF s[1] = "ws" THEN Strip(Tail(s))
  ELSE IF s[Len(s)] = "ws" THEN Strip(SubSeq(s, 1, Len(s) - 1))
  ELSE s

NotFound == [found |-> FALSE, code |-> <<>>]

\* _IMPROVED_CODE_PATTERNS: pattern k is heading form k, then lazily anything,
\* "```python", and the lazy capture up to the next "```". The heading of
\* form 1 contains the one of form 2, which contains the one of form 3.
IMPROVED_CODE_PATTERNS == <<1, 2, 3>>
HeadingMatches(char, k) ==
  \/ char = "h1"
  \/ char = "h2" /\ k >= 2
  \/ char = "h3" /\ k >= 3
StartsFence(char) == char \in {"fpy", "fjs", "fence"}

\* pattern.search(analisis): the leftmost start at which the pattern matches,
\* and from there the nearest "```python" and the nearest "```" after it.
pattern_search(chars, k) ==
  LET n == Len(chars)
      Closers(j) == { l \in (j + 1)..n : StartsFence(chars[l]) }
      Opens(i) == { j \in (i + 1)..n : chars[j] = "fpy" /\ Closers(j) # {} }
      Starts == { i \in 1..n : HeadingMatches(chars[i], k) /\ Opens(i) # {} }
  IN IF Starts = {} THEN NotFound
     ELSE LET i == CHOOSE x \in Starts : \A y \in Starts : x <= y
              j == CHOOSE x \in Opens(i) : \A y \in Opens(i) : x <= y
              l == CHOOSE x \in Closers(j) : \A y \in Closers(j) : x <= y
          IN [found |-> TRUE, code |-> Strip(SubSeq(chars, j + 1, l - 1))]

\* The extractor with the loosest pattern tried first.
extract_improved_code_from_loosest_first(text) ==
  LET chars == Flatten(text)
      hits == { k \in 1..Len(IMPROVED_CODE_PATTERNS) :
                  pattern_search(chars, IMPROVED_CODE_PATTERNS[k]).found }
  IN IF hits = {} THEN NotFound
     ELSE pattern_search(chars,
            IMPROVED_CODE_PATTERNS[CHOOSE k \in hits : \A h \in hits : k >= h])

\* _extract_improved_code on a text: the first pattern of the list that
\* matches decides.
extract_improved_code_from(text) ==
  LET chars == Flatten(text)
      hits == { k \in 1..Len(IMPROVED_CODE_PATTERNS) :
                  pattern_search(chars, IMPROVED_CODE_PATTERNS[k]).found }
  IN IF hits = {} THEN NotFound
     ELSE pattern_search(chars,
            IMPROVED_CODE_PATTERNS[CHOOSE k \in hits : \A h \in hits : k <= h])

\* A gateway text as the score pattern sees it: pieces that carry the exact
\* label "Score de Calidad:" with a number and "/100" (with a blank, or
\* without one as in score85tight), the same in lower case (lower85), the
\* label with "85/10" (short85), and other prose.
ScorePieces ==
  {"score0", "score85", "score100", "score150", "score07", "score85tight",
   "lower85", "short85", "txt"}
ScoreTexts == UNION { [1..n -> ScorePieces] : n \in 0..MaxTextLen }

Char(t, digits) == [t |-> t, digits |-> digits]
ScorePieceChars(piece) ==
  CASE piece = "score0" ->
         <<Char("label", <<>>), Char("ws", <<>>), Char("num", <<0>>), Char("per100", <<>>)>>
    [] piece = "score85" ->
         <<Char("label", <<>>), Char("ws", <<>>), Char("num", <<8, 5>>), Char("per100", <<>>)>>
    [] piece = "score100" ->
         <<Char("label", <<>>), Char("ws", <<>>), Char("num", <<1, 0, 0>>), Char("per100", <<>>)>>
    [] piece = "score150" ->
         <<Char("label", <<>>), Char("ws", <<>>), Char("num", <<1, 5, 0>>), Char("per100", <<>>)>>
    [] piece = "score07" ->
         <<Char("label", <<>>), Char("ws", <<>>), Char("num", <<0, 7>>), Char("per100", <<>>)>>
    [] piece = "score85tight" ->
         <<Char("label", <<>>), Char("num", <<8, 5>>), Char("per100", <<>>)>>
    [] piece = "lower85" ->
         <<Char("lowerlabel", <<>>), Char("ws", <<>>), Char("num", <<8, 5>>), Char("per100", <<>>)>>
    [] piece = "short85" ->
         <<Char("label", <<>>), Char("ws", <<>>), Char("num", <<8, 5>>), Char("per10", <<>>)>>
    [] OTHER -> <<Char("txt", <<>>)>>

RECURSIVE ScoreFlatten(_)
ScoreFlatten(text) ==
  IF Len(text) = 0 THEN <<>>
  ELSE ScorePieceChars(text[1]) \o ScoreFlatten(Tail(text))

\* int(match.group(1)) on a string of decimal digits.
RECURSIVE ToInt(_)
ToInt(digits) ==
  IF Len(digits) = 0 THEN 0
  ELSE 10 * ToInt(SubSeq(digits, 1, Len(digits) - 1)) + digits[Len(digits)]

ScoreNotFound == [found |-> FALSE, score |-> None]

\* Whether _SCORE_PATTERN matches at position i: the label, \s*, (\d+), /100.
ScoreMatchAt(chars, i) ==
  LET j == IF i + 1 <= Len(chars) /\ chars[i + 1].t = "ws" THEN i + 2 ELSE i + 1
  IN /\ chars[i].t = "label"
     /\ j + 1 <= Len(chars)
     /\ chars[j].t = "num"
     /\ chars[j + 1].t = "per100"
ScoreGroup(chars, i) ==
  IF chars[i + 1].t = "ws" THEN chars[i + 2].digits ELSE chars[i + 1].digits

\* A score extractor that cuts the value to the range of the column.
extract_score_from_clamped(text) ==
  LET chars == ScoreFlatten(text)
      hits == { i \in 1..Len(chars) : ScoreMatchAt(chars, i) }
  IN IF hits = {} THEN ScoreNotFound
     ELSE LET i == CHOOSE x \in hits : \A y \in hits : x <= y
              n == ToInt(ScoreGroup(chars, i))
          IN [found |-> TRUE, score |-> IF n > 100 THEN 100 ELSE n]

\* _extract_score on a text: _SCORE_PATTERN.search, then int() of the group.
extract_score_from(text) ==
  LET chars == ScoreFlatten(text)
      hits == { i \in 1..Len(chars) : ScoreMatchAt(chars, i) }
  IN IF hits = {} THEN ScoreNotFound
     ELSE LET i == CHOOSE x \in hits : \A y \in hits : x <= y
          IN [found |-> TRUE, score |-> ToInt(ScoreGroup(chars, i))]

\* A generateContent response for the classifier: without candidates, with a
\* first candidate without parts, or with a first candidate whose first or
\* second part is a text (the other one being something else). The text is
\* made of whitespace, prose (x), "{" (lb), "}" (rb), a whole object "{x}"
\* (obj), "```json" (fjson) and "```" (fence).
JsonPieces == {"ws", "x", "lb", "rb", "obj", "fjson", "fence"}
JsonTexts == UNION { [1..n -> JsonPieces] : n \in 0..MaxTextLen }
Response(shape, text) == [shape |-> shape, text |-> text]
Responses ==
  { Response(s, <<>>) : s \in {"no_candidates", "no_parts"} }
  \cup { Response(s, t) : s \in {"text_first", "text_second"}, t \in JsonTexts }

\* An extractor whose brace search stops at the first "}".
extract_classification_text_for_json_lazy(data) ==
  LET raw == IF data.shape = "text_first" THEN Strip(Flatten(data.text)) ELSE <<>>
      n == Len(raw)
      Closers(j) == { l \in (j + 1)..n : raw[l] \in {"fjson", "fence"} }
      Fences == { j \in 1..n : raw[j] = "fjson" /\ Closers(j) # {} }
      Ends(i) == { l \in (i + 1)..n : raw[l] = "rb" }
      Braces == { i \in 1..n : raw[i] = "lb" /\ Ends(i) # {} }
  IN IF Fences # {}
     THEN LET j == CHOOSE x \in Fences : \A y \in Fences : x <= y
              l == CHOOSE x \in Closers(j) : \A y \in Closers(j) : x <= y
          IN Strip(SubSeq(raw, j + 1, l - 1))
     ELSE IF Braces # {}
     THEN LET i == CHOOSE x \in Braces : \A y \in Braces : x <= y
              l == CHOOSE x \in Ends(i) : \A y \in Ends(i) : x <= y
          IN Strip(SubSeq(raw, i, l))
     ELSE raw

\* _extract_classification_text_for_json: the stripped text of the first
\* part of the first candidate; from it the capture of "```json\s*(.*?)\s*```"
\* if that matches, else the match of the greedy "\{.*\}" if that matches,
\* else the text itself.
extract_classification_text_for_json(data) ==
  LET raw == IF data.shape = "text_first" THEN Strip(Flatten(data.text)) ELSE <<>>
      n == Len(raw)
      Closers(j) == { l \in (j + 1)..n : raw[l] \in {"fjson", "fence"} }
      Fences == { j \in 1..n : raw[j] = "fjson" /\ Closers(j) # {} }
      Ends(i) == { l \in (i + 1)..n : raw[l] = "rb" }
      Braces == { i \in 1..n : raw[i] = "lb" /\ Ends(i) # {} }
  IN IF Fences # {}
     THEN LET j == CHOOSE x \in Fences : \A y \in Fences : x <= y
              l == CHOOSE x \in Closers(j) : \A y \in Closers(j) : x <= y
          IN Strip(SubSeq(raw, j + 1, l - 1))
     ELSE IF Braces # {}
     THEN LET i == CHOOSE x \in Braces : \A y \in Braces : x <= y
              l == CHOOSE x \in Ends(i) : \A y \in Ends(i) : x >= y
          IN Strip(SubSeq(raw, i, l))
     ELSE raw

\* select(User).where(User.id == usuario_id) ... .first() against the
\* committed table: the row, or NoUser when there is none.
select_user(table, usuario_id) ==
  IF usuario_id \in DOMAIN table THEN table[usuario_id] ELSE NoUser

\* What a request presents in its Authorization header: nothing, a bearer
\* token that does not decode, or a valid token whose subject is user sub.
Credentials ==
  { [kind |-> k, sub |-> None] : k \in {"absent", "invalid"} }
  \cup { [kind |-> "bearer", sub |-> u] : u \in UserIds }

\* get_current_user with HTTPBearer(auto_error=False): None without
\* credentials, 401 for a token that does not decode or whose user has no
\* row, the user otherwise (every user of the model is active).
get_current_user(credentials, table) ==
  IF credentials.kind = "absent" THEN [raised |-> 0, user |-> None]
  ELSE IF credentials.kind = "invalid" THEN [raised |-> 401, user |-> None]
  ELSE IF select_user(table, credentials.sub) = NoUser THEN [raised |-> 401, user |-> None]
  ELSE [raised |-> 0, user |-> credentials.sub]

\* The ids and rows the roles table can hold: the primary key id and the
\* unique name are the constraints of the table.
RoleIds == 1..(Len(DEFAULT_ROLES) + ExtraRoleIds)
RoleRows ==
  { RoleRow(id, DEFAULT_ROLES[k].name, m) :
      id \in RoleIds, k \in DOMAIN DEFAULT_ROLES,
      m \in {FREE_MAX_ANALYSES_PER_DAY, PRO_MAX_ANALYSES_PER_DAY} }

\* create_default_roles: one INSERT of all default roles with ON CONFLICT (id)
\* DO NOTHING. A default role whose id is in the table is skipped; one whose
\* id is free is inserted, and if its name is already in the table the
\* unique index on name fails the whole statement.
create_default_roles(table) ==
  LET defaults == { DEFAULT_ROLES[i] : i \in DOMAIN DEFAULT_ROLES }
      to_insert == { d \in defaults : \A row \in table : row.id # d.id }
      name_taken == \E d \in to_insert : \E row \in table : row.name = d.name
  IN IF name_taken THEN [raised |-> TRUE, roles |-> table]
     ELSE [raised |-> FALSE, roles |-> table \cup to_insert]

\* EncryptionService.decrypt on a stored token: the plaintext, or
\* DecryptionError for a token that is not one of the current key.
decrypt(ciphertext) ==
  IF ciphertext = "valid-token" THEN [ok |-> TRUE, plaintext |-> UserKey]
  ELSE [ok |-> FALSE, plaintext |-> NoKey]

\* A key lookup that hands on a key whenever one is stored.
get_user_api_key_no_fallback(user, table) ==
  IF user = None THEN NoKey
  ELSE IF table[user] = NoStoredKey THEN NoKey
  ELSE UserKey

\* _get_user_api_key: None without a user or without a stored key; the
\* decrypted key; None when decrypt raises.
get_user_api_key(user, table) ==
  IF user = None THEN NoKey
  ELSE IF table[user] = NoStoredKey THEN NoKey
  ELSE IF decrypt(table[user]).ok THEN decrypt(table[user]).plaintext
  ELSE NoKey

\* The customer_name of a classification: none, a name, or the name the
\* service gives to a client without one.
CustomerNames == {"", "Ana", "Unknown"}

\* select(Client).where(Client.name == customer_name) ... .first(): the id of
\* a committed row of that name (any of them: there is no ORDER BY), or
\* None; without a customer name nothing is looked up.
select_client(table, customer_name) ==
  LET ids == { i \in DOMAIN table : table[i] = customer_name }
  IN IF customer_name = "" \/ ids = {} THEN {None} ELSE ids

\* Variant of the persistence guard that looks only at the session.
should_persist_any_user(db, usuario_id) == db

\* _persist_analysis, lines 203-204: `if not self.db or not usuario_id:
\* return None`. Nothing is persisted without a session or without a user.
should_persist(db, usuario_id) == db /\ usuario_id # None

\* A range constraint without its upper end.
ScoreInRange_no_upper(score) == score = None \/ score >= 0

\* A range constraint that also refuses an absent score.
ScoreInRange_not_null(score) == score # None /\ score >= 0 /\ score <= 100

\* ck_quality_score_range.
ScoreInRange(score) == score = None \/ (score >= 0 /\ score <= 100)

\* A commit that keeps only the newest row of each user.
commit_rows_keep_latest(table, row) ==
  IF row # NoRow
  THEN { a \in table : a.user_id # row.user_id } \cup {row}
  ELSE table

\* session.commit() for the analyses table: the row flushed by the request,
\* if there is one, becomes part of the committed table; no other statement
\* on analyses is ever issued.
commit_rows(table, row) ==
  IF row # NoRow THEN table \cup {row} ELSE table

\* Variants of _update_user_counters with one slip each.
update_user_counters_total_from_day(user, today, now) ==
  LET last_date == IF user.last_analysis_date # None
                   THEN DateOf(user.last_analysis_date) ELSE None
      base == IF last_date # today THEN 0 ELSE user.analyses_today
  IN [analyses_today |-> base + 1,
      total_analyses |-> (IF last_date # today THEN 0 ELSE user.total_analyses) + 1,
      last_analysis_date |-> now]

update_user_counters_no_reset(user, today, now) ==
  [analyses_today |-> user.analyses_today + 1,
   total_analyses |-> user.total_analyses + 1,
   last_analysis_date |-> now]

\* _update_user_counters, lines 244-253, on the loaded user object.
update_user_counters(user, today, now) ==
  LET last_date == IF user.last_analysis_date # None
                   THEN DateOf(user.last_analysis_date) ELSE None
      base == IF last_date # today THEN 0 ELSE user.analyses_today
  IN [analyses_today |-> base + 1,
      total_analyses |-> user.total_analyses + 1,
      last_analysis_date |-> now]

\* The UPDATE the unit of work emits for a dirty user: only the attributes
\* whose value differs from the loaded one are written.
FlushUser(committed, loaded, current) ==
  [a \in DOMAIN committed |-> IF current[a] # loaded[a] THEN current[a] ELSE committed[a]]

\* A get_db that rolls back only when commit() itself fails.
get_db_exit_no_rollback(handler_raised, commit_fails) ==
  IF commit_fails THEN "rollback" ELSE "commit"

\* get_db, lines 108-115, seen from the handler: an exception out of the
\* handler (the HTTPException of a failure envelope) or out of commit() ends
\* in rollback(); otherwise the transaction is committed.
get_db_exit(handler_raised, commit_fails) ==
  IF handler_raised \/ commit_fails THEN "rollback" ELSE "commit"

\* analizar_codigo, lines 170-177: what the service hands its caller when
\* _persist_analysis raised AnalysisPersistenceError.
on_persist_error ==
  [raised |-> "none", envelope |-> FailureEnvelope("generic")]

\* ---------------------------------------------------------------- actions
\* A request arrives. Through the router the body is checked against the
\* schema, get_db opens the session and get_current_user loads the User row
\* into it; a direct caller builds AnalysisService() without a session. The
\* service then validates the code (analizar_codigo, lines 117-134), which
\* ends the call or leads to the gateway call.
Begin(r, caller, u, code, key, limit, alone) ==
  /\ pc[r] = "idle"
  /\ \A q \in Req : q < r => pc[q] # "idle"
  /\ started < limit
  /\ alone => \A q \in Req \ {r} : pc[q] = "idle"
  /\ started' = started + 1
  /\ req' = [req EXCEPT ![r] = [caller |-> caller, usuario_id |-> u,
                                db |-> (caller = "router"), code |-> code,
                                user_api_key |-> key]]
  /\ sess' = [sess EXCEPT ![r] =
                IF caller = "router" /\ u # None
                THEN [NoSess EXCEPT !.user = users[u], !.loaded = users[u]]
                ELSE NoSess]
  /\ IF caller = "router" /\ u # None /\ select_user(users, u) = NoUser
     THEN /\ pc' = [pc EXCEPT ![r] = "done"]
          /\ result' = [result EXCEPT ![r] = NoResult]
          /\ obs' = [obs EXCEPT ![r] = [NoObs EXCEPT !.http = 401]]
     ELSE IF caller = "router" /\ ~SchemaAccepts(code)
     THEN /\ pc' = [pc EXCEPT ![r] = "done"]
          /\ result' = [result EXCEPT ![r] = NoResult]
          /\ obs' = [obs EXCEPT ![r] = [NoObs EXCEPT !.http = 422]]
     ELSE /\ obs' = [obs EXCEPT ![r] =
                          [NoObs EXCEPT !.codigo_len =
                             IF ValidateCode(code) = "ok" THEN None
                             ELSE failure_codigo(ValidateCode(code), code)]]
          /\ IF ValidateCode(code) = "ok"
             THEN /\ pc' = [pc EXCEPT ![r] = "gateway"]
                  /\ result' = [result EXCEPT ![r] = NoResult]
             ELSE /\ pc' = [pc EXCEPT ![r] = "returned"]
                  /\ result' = [result EXCEPT ![r] =
                                  [raised |-> "none",
                                   envelope |-> FailureEnvelope(ValidateCode(code))]]
  /\ UNCHANGED <<clock, tz, users, analyses, nextId, view, support>>

\* analizar_codigo, lines 136-149: the gateway call and the extraction.
Gateway(r, upstream) ==
  /\ pc[r] = "gateway"
  /\ pc' = [pc EXCEPT ![r] = "persist"]
  /\ sess' = [sess EXCEPT ![r].text = analyze_code(upstream)]
  /\ obs' = [obs EXCEPT ![r].gateway_calls = @ + 1,
                        ![r].credential = gateway_credential(req[r].user_api_key),
                        ![r].gateway_failed = ~upstream.ok,
                        ![r].detail = upstream.detail]
  /\ UNCHANGED <<clock, tz, users, analyses, nextId, started, req, result, view, support>>

\* _persist_analysis, lines 203-218: add() and flush() of the Analysis row.
\* The INSERT is checked against ck_quality_score_range and against the
\* foreign key analyses.user_id -> users.id.
PersistInsert(r, flush_fails) ==
  /\ pc[r] = "persist"
  /\ LET text == sess[r].text
         score == extract_score(text)
     IN
       IF ~should_persist(req[r].db, req[r].usuario_id)
       THEN /\ pc' = [pc EXCEPT ![r] = "returned"]
            /\ result' = [result EXCEPT ![r] =
                            [raised |-> "none", envelope |-> SuccessEnvelope(text, None)]]
            /\ UNCHANGED <<sess, obs, nextId>>
       ELSE IF flush_fails \/ ~ScoreInRange(score)
               \/ select_user(users, req[r].usuario_id) = NoUser
       THEN /\ pc' = [pc EXCEPT ![r] = "returned"]
            /\ result' = [result EXCEPT ![r] = on_persist_error]
            /\ obs' = [obs EXCEPT ![r].persist_failed = TRUE,
                                  ![r].codigo_len = failure_codigo("generic", req[r].code),
                                  ![r].user_missing =
                                     (select_user(users, req[r].usuario_id) = NoUser)]
            /\ UNCHANGED <<sess, nextId>>
       ELSE /\ pc' = [pc EXCEPT ![r] = "counters"]
            /\ sess' = [sess EXCEPT ![r].row =
                          [id |-> nextId, user_id |-> req[r].usuario_id,
                           created_at |-> utc_now(clock), quality_score |-> score,
                           code_improved |-> extract_improved_code(text),
                           analysis_result |-> text]]
            /\ nextId' = nextId + 1
            /\ UNCHANGED <<result, obs>>
  /\ UNCHANGED <<clock, tz, users, analyses, started, req, view, support>>

\* _update_user_counters, lines 232-253, and the return of lines 160-168.
UpdateCounters(r, select_fails) ==
  /\ pc[r] = "counters"
  /\ pc' = [pc EXCEPT ![r] = "returned"]
  /\ IF select_fails
     THEN /\ result' = [result EXCEPT ![r] = on_persist_error]
          /\ obs' = [obs EXCEPT ![r].persist_failed = TRUE,
                                ![r].codigo_len = failure_codigo("generic", req[r].code)]
          /\ UNCHANGED sess
     ELSE /\ result' = [result EXCEPT ![r] =
                          [raised |-> "none",
                           envelope |-> SuccessEnvelope(sess[r].text, sess[r].row.id)]]
          /\ IF select_user(users, req[r].usuario_id) = NoUser
             THEN /\ obs' = [obs EXCEPT ![r].user_missing = TRUE]
                  /\ UNCHANGED sess
             ELSE /\ sess' = [sess EXCEPT
                                ![r].user = update_user_counters(sess[r].user,
                                              date_today(clock, tz), datetime_now(clock, tz)),
                                ![r].dirty = TRUE]
                  /\ obs' = [obs EXCEPT ![r].updated_at = datetime_now(clock, tz),
                                        ![r].today_at_update = date_today(clock, tz)]
  /\ UNCHANGED <<clock, tz, users, analyses, nextId, started, req, view, support>>

\* The handler of analysis_router.py, lines 152-158, and the exit of get_db.
RouterExit(r, commit_fails) ==
  /\ pc[r] = "returned"
  /\ req[r].caller = "router"
  /\ pc' = [pc EXCEPT ![r] = "done"]
  /\ LET ok == result[r].envelope.success
         u == req[r].usuario_id
     IN
       IF get_db_exit(~ok, commit_fails) = "commit"
       THEN /\ analyses' = commit_rows(analyses, sess[r].row)
            /\ users' = IF sess[r].dirty
                        THEN [users EXCEPT ![u] = FlushUser(users[u], sess[r].loaded,
                                                            sess[r].user)]
                        ELSE users
            /\ obs' = [obs EXCEPT ![r].row_committed = (sess[r].row # NoRow),
                                  ![r].counters_committed = sess[r].dirty,
                                  ![r].http = 200]
       ELSE /\ UNCHANGED <<analyses, users>>
            /\ obs' = [obs EXCEPT ![r].http = IF ok THEN 500 ELSE 400]
  /\ UNCHANGED <<clock, tz, nextId, started, req, sess, result, view, support>>

\* A direct caller takes the envelope; there is no session to end.
DirectReturn(r) ==
  /\ pc[r] = "returned"
  /\ req[r].caller = "direct"
  /\ pc' = [pc EXCEPT ![r] = "done"]
  /\ UNCHANGED <<clock, tz, users, analyses, nextId, started, req, sess, result, obs, view, support>>

\* The response is gone and the slot is free again.
Finish(r) ==
  /\ pc[r] = "done"
  /\ pc' = [pc EXCEPT ![r] = "idle"]
  /\ req' = [req EXCEPT ![r] = NoReq]
  /\ sess' = [sess EXCEPT ![r] = NoSess]
  /\ result' = [result EXCEPT ![r] = NoResult]
  /\ obs' = [obs EXCEPT ![r] = NoObs]
  /\ UNCHANGED <<clock, tz, users, analyses, nextId, started, view, support>>

\* GET /stats of user u, whose role is `role` when the request is
\* authenticated (role_id can be reassigned, or set NULL when the role row is
\* deleted, between requests).
GetStatistics(u, role) ==
  /\ select_user(users, u) # NoUser
  /\ view' = [kind |-> "stats", usuario_id |-> u,
               input |-> [user |-> users[u], role |-> role,
                          today |-> date_today(clock, tz)],
               data |-> obtener_estadisticas(users[u], role)]
  /\ UNCHANGED <<clock, tz, users, analyses, nextId, started, pc, req, sess, result, obs, support>>

\* GET /history of user u, first statement: the count.
HistoryCount(u, limit, offset) ==
  /\ view.kind # "history_count"
  /\ select_user(users, u) # NoUser
  /\ view' = [kind |-> "history_count", usuario_id |-> u,
               input |-> [limit |-> limit, offset |-> offset, at_count |-> analyses],
               data |-> [total |-> count_analyses(analyses, u)]]
  /\ UNCHANGED <<clock, tz, users, analyses, nextId, started, pc, req, sess, result, obs, support>>

\* GET /history, second statement: the page, in the order the database
\* delivers it, and the response. Each statement sees what is committed when
\* it runs (READ COMMITTED).
HistoryPage(order) ==
  /\ view.kind = "history_count"
  /\ view' = [kind |-> "history", usuario_id |-> view.usuario_id,
               input |-> [limit |-> view.input.limit, offset |-> view.input.offset,
                          at_count |-> view.input.at_count, at_page |-> analyses],
               data |-> [items |-> history_items(history_page(order, view.input.limit,
                                                              view.input.offset)),
                         total |-> view.data.total,
                         limit |-> view.input.limit, offset |-> view.input.offset]]
  /\ UNCHANGED <<clock, tz, users, analyses, nextId, started, pc, req, sess, result, obs, support>>

\* _extract_improved_code is applied to a text, twice.
ExtractImprovedCode(text) ==
  /\ view.kind = "none"
  /\ view' = [kind |-> "improved_code", usuario_id |-> None, input |-> text,
               data |-> [first |-> extract_improved_code_from(text),
                         second |-> extract_improved_code_from(text)]]
  /\ UNCHANGED <<clock, tz, users, analyses, nextId, started, pc, req, sess, result, obs, support>>

\* _extract_score is applied to a text.
ExtractScore(text) ==
  /\ view.kind = "none"
  /\ view' = [kind |-> "score", usuario_id |-> None, input |-> text,
               data |-> extract_score_from(text)]
  /\ UNCHANGED <<clock, tz, users, analyses, nextId, started, pc, req, sess, result, obs, support>>

\* _extract_classification_text_for_json is applied to a response.
ExtractClassificationText(data) ==
  /\ view.kind = "none"
  /\ view' = [kind |-> "classification_text", usuario_id |-> None, input |-> data,
               data |-> extract_classification_text_for_json(data)]
  /\ UNCHANGED <<clock, tz, users, analyses, nextId, started, pc, req, sess, result, obs, support>>

\* GET /api/analysis/stats or /history: the authentication dependency, then
\* the handler body, whose first use of the user is current_user.id: with
\* current_user = None that raises AttributeError and the request ends as
\* an unhandled server error.
RouterRead(endpoint, credentials) ==
  LET dep == get_current_user(credentials, users)
  IN /\ view' = [kind |-> "router_read", usuario_id |-> dep.user,
                  input |-> [endpoint |-> endpoint, credentials |-> credentials],
                  data |-> [handler_ran |-> dep.raised = 0,
                            http |-> IF dep.raised # 0 THEN dep.raised
                                     ELSE IF dep.user = None THEN 500 ELSE 200]]
     /\ UNCHANGED <<clock, tz, users, analyses, nextId, started, pc, req, sess, result, obs, support>>

\* The startup hook of main.py runs create_default_roles.
CreateDefaultRoles ==
  /\ roles' = create_default_roles(roles).roles
  /\ view' = [kind |-> "create_default_roles", usuario_id |-> None, input |-> roles,
               data |-> [raised |-> create_default_roles(roles).raised]]
  /\ UNCHANGED <<clock, tz, users, analyses, nextId, started, pc, req, sess, result, obs,
                  gemini_api_key_encrypted, clients, tickets, atencion>>

\* Before the application is started, an administrator's SQL deletes a role
\* or inserts one that the constraints of the table admit.
AdminDeleteRole(id) ==
  /\ view.kind = "none"
  /\ \E row \in roles : row.id = id
  /\ roles' = { row \in roles : row.id # id }
  /\ UNCHANGED <<clock, tz, users, analyses, nextId, started, pc, req, sess, result, obs,
                  view, gemini_api_key_encrypted, clients, tickets, atencion>>

AdminInsertRole(new) ==
  /\ view.kind = "none"
  /\ \A row \in roles : row.id # new.id /\ row.name # new.name
  /\ roles' = roles \cup {new}
  /\ UNCHANGED <<clock, tz, users, analyses, nextId, started, pc, req, sess, result, obs,
                  view, gemini_api_key_encrypted, clients, tickets, atencion>>

\* register_user with a gemini_api_key, before the user's first request: the
\* encrypted key is stored in the user row. The stored token decrypts later,
\* or (after a change of ENCRYPTION_KEY) it does not.
RegisterKey(u, stored) ==
  /\ started = 0
  /\ users[u] # NoUser
  /\ gemini_api_key_encrypted[u] = NoStoredKey
  /\ gemini_api_key_encrypted' = [gemini_api_key_encrypted EXCEPT ![u] = stored]
  /\ UNCHANGED <<clock, tz, users, analyses, nextId, started, pc, req, sess, result, obs,
                  view, roles, clients, tickets, atencion>>

\* AtencionService.atender, lines 18-32: without a session the call fails;
\* otherwise the message is classified and the client is looked up by name.
AtenderSelect(c, db, customer_name) ==
  /\ atencion[c].pc = "idle"
  /\ \A d \in Calls : d < c => atencion[d].pc # "idle"
  /\ \E found \in select_client(clients, customer_name) :
       atencion' = [atencion EXCEPT ![c] =
                      IF ~db THEN [NoCall EXCEPT !.pc = "done"]
                      ELSE [NoCall EXCEPT !.pc = "selected", !.db = TRUE,
                                          !.customer_name = customer_name,
                                          !.client = found]]
  /\ UNCHANGED <<clock, tz, users, analyses, nextId, started, pc, req, sess, result, obs,
                  view, roles, gemini_api_key_encrypted, clients, tickets>>

\* AtencionService.atender, lines 33-55: a client that was not found is
\* created under the customer name, or under "Unknown" without one; the
\* ticket and the conversation are added and the transaction commits.
AtenderCommit(c) ==
  /\ atencion[c].pc = "selected"
  /\ LET created == atencion[c].client = None
         name == IF atencion[c].customer_name # "" THEN atencion[c].customer_name
                 ELSE "Unknown"
         client_id == IF created THEN Len(clients) + 1 ELSE atencion[c].client
     IN /\ clients' = IF created THEN Append(clients, name) ELSE clients
        /\ tickets' = Append(tickets, client_id)
        /\ atencion' = [atencion EXCEPT ![c].pc = "done", ![c].success = TRUE,
                                         ![c].client_id = client_id]
  /\ UNCHANGED <<clock, tz, users, analyses, nextId, started, pc, req, sess, result, obs,
                  view, roles, gemini_api_key_encrypted>>

\* A user row is deleted by another transaction (BaseRepository.delete_by_id
\* or an administrator's DELETE). analyses.user_id is ON DELETE CASCADE; a
\* transaction that has inserted a row for the user holds a key-share lock on
\* the user row, so the DELETE waits for it.
DeleteUser(u) ==
  /\ users[u] # NoUser
  /\ \A r \in Req : sess[r].row.user_id # u
  /\ users' = [users EXCEPT ![u] = NoUser]
  /\ analyses' = analyses \ { a \in analyses : a.user_id = u }
  /\ gemini_api_key_encrypted' = [gemini_api_key_encrypted EXCEPT ![u] = NoStoredKey]
  /\ UNCHANGED <<clock, tz, nextId, started, pc, req, sess, result, obs, view,
                  roles, clients, tickets, atencion>>

\* Time passes.
Tick ==
  /\ clock < MaxClock
  /\ clock' = clock + 1
  /\ UNCHANGED <<tz, users, analyses, nextId, started, pc, req, sess, result, obs, view, support>>

\* --------------------------------------------------------- specifications
\* Up to NReq requests through the router, in flight together.
Next ==
  \/ \E r \in Req, u \in UserIds \cup {None}, code \in CodeInputs :
        Begin(r, "router", u, code, NoKey, NReq, FALSE)
  \/ \E r \in Req, up \in UpstreamAll : Gateway(r, up)
  \/ \E r \in Req, f \in BOOLEAN : PersistInsert(r, f)
  \/ \E r \in Req, f \in BOOLEAN : UpdateCounters(r, f)
  \/ \E r \in Req, f \in BOOLEAN : RouterExit(r, f)
  \/ Tick

Spec == Init /\ [][Next]_vars

\* Requests of every kind and caller, executed one at a time.
NextSeq ==
  \/ \E r \in Req, c \in Callers, u \in UserIds \cup {None}, code \in CodeInputs :
        Begin(r, c, u, code, NoKey, MaxRequests, TRUE)
  \/ \E r \in Req, up \in UpstreamAll : Gateway(r, up)
  \/ \E r \in Req, f \in BOOLEAN : PersistInsert(r, f)
  \/ \E r \in Req, f \in BOOLEAN : UpdateCounters(r, f)
  \/ \E r \in Req, f \in BOOLEAN : RouterExit(r, f)
  \/ \E r \in Req : DirectReturn(r)
  \/ \E r \in Req : Finish(r)
  \/ Tick

SpecSeq == Init /\ [][NextSeq]_vars

\* One free-plan user submitting valid code through the router, one request
\* at a time, with a working gateway and a working database.
NextQuota ==
  \/ \E r \in Req : Begin(r, "router", 1, OkCode, NoKey, MaxQuotaRequests, TRUE)
  \/ \E r \in Req, up \in GoodUpstream : Gateway(r, up)
  \/ \E r \in Req : PersistInsert(r, FALSE)
  \/ \E r \in Req : UpdateCounters(r, FALSE)
  \/ \E r \in Req : RouterExit(r, FALSE)
  \/ \E r \in Req : Finish(r)
  \/ Tick

SpecQuota == Init /\ [][NextQuota]_vars

\* Authenticated users submitting valid code through the router, one request
\* at a time, with a working database and a gateway whose answers may lack
\* the score line or the improved-code block.
NextExtract ==
  \/ \E r \in Req, u \in UserIds : Begin(r, "router", u, OkCode, NoKey, MaxRequests, TRUE)
  \/ \E r \in Req, up \in UpstreamExtract : Gateway(r, up)
  \/ \E r \in Req : PersistInsert(r, FALSE)
  \/ \E r \in Req : UpdateCounters(r, FALSE)
  \/ \E r \in Req : RouterExit(r, FALSE)
  \/ \E r \in Req : Finish(r)
  \/ Tick

SpecExtract == Init /\ [][NextExtract]_vars

\* Authenticated requests with a working gateway and database, one at a
\* time, while user rows can be deleted underneath them.
NextOrphan ==
  \/ \E r \in Req, u \in UserIds : Begin(r, "router", u, OkCode, NoKey, MaxRequests, TRUE)
  \/ \E r \in Req, up \in GoodUpstream : Gateway(r, up)
  \/ \E r \in Req : PersistInsert(r, FALSE)
  \/ \E r \in Req : UpdateCounters(r, FALSE)
  \/ \E r \in Req : RouterExit(r, FALSE)
  \/ \E r \in Req : Finish(r)
  \/ \E u \in UserIds : DeleteUser(u)
  \/ Tick

SpecOrphan == Init /\ [][NextOrphan]_vars

\* Requests in flight together, each of another user (slot r serves user r),
\* with and without a key of the user's own, with a working database.
NextKey ==
  \/ \E r \in Req \cap UserIds, key \in KeyInputs :
        Begin(r, "router", r, OkCode, key, NReq, FALSE)
  \/ \E r \in Req, up \in UpstreamAll : Gateway(r, up)
  \/ \E r \in Req : PersistInsert(r, FALSE)
  \/ \E r \in Req : UpdateCounters(r, FALSE)
  \/ \E r \in Req : RouterExit(r, FALSE)
  \/ Tick

SpecKey == Init /\ [][NextKey]_vars

\* One user analysing past the free limit and asking for the statistics,
\* under every role.
NextStats ==
  \/ \E r \in Req : Begin(r, "router", 1, OkCode, NoKey, MaxQuotaRequests, TRUE)
  \/ \E r \in Req, up \in GoodUpstream : Gateway(r, up)
  \/ \E r \in Req : PersistInsert(r, FALSE)
  \/ \E r \in Req : UpdateCounters(r, FALSE)
  \/ \E r \in Req : RouterExit(r, FALSE)
  \/ \E r \in Req : Finish(r)
  \/ \E role \in Roles \cup {NoRole} : GetStatistics(1, role)
  \/ Tick

SpecStats == Init /\ [][NextStats]_vars

\* Users storing analyses through the router, one request at a time, while
\* user 1 pages through the history.
NextHistory ==
  \/ \E r \in Req, u \in UserIds :
        Begin(r, "router", u, OkCode, NoKey, MaxHistoryRequests, TRUE)
  \/ \E r \in Req, up \in GoodUpstream : Gateway(r, up)
  \/ \E r \in Req : PersistInsert(r, FALSE)
  \/ \E r \in Req : UpdateCounters(r, FALSE)
  \/ \E r \in Req : RouterExit(r, FALSE)
  \/ \E r \in Req : Finish(r)
  \/ \E limit \in 1..MaxLimit, offset \in 0..MaxOffset : HistoryCount(1, limit, offset)
  \/ \E order \in DescOrders(analyses, view.usuario_id) : HistoryPage(order)
  \/ Tick

SpecHistory == Init /\ [][NextHistory]_vars

\* Every core operation together: analyze requests through the router with
\* every gateway outcome and database fault, one at a time, and the
\* statistics and the history of user 1 read in between.
NextRows ==
  \/ \E r \in Req, u \in UserIds \cup {None} :
        Begin(r, "router", u, OkCode, NoKey, MaxRequests, TRUE)
  \/ \E r \in Req, up \in UpstreamAll : Gateway(r, up)
  \/ \E r \in Req, f \in BOOLEAN : PersistInsert(r, f)
  \/ \E r \in Req, f \in BOOLEAN : UpdateCounters(r, f)
  \/ \E r \in Req, f \in BOOLEAN : RouterExit(r, f)
  \/ \E r \in Req : Finish(r)
  \/ GetStatistics(1, Role("free", FREE_MAX_ANALYSES_PER_DAY))
  \/ \E limit \in 1..MaxLimit : HistoryCount(1, limit, 0)
  \/ \E order \in DescOrders(analyses, view.usuario_id) : HistoryPage(order)
  \/ Tick

SpecRows == Init /\ [][NextRows]_vars

\* The improved-code extractor on every text of up to MaxTextLen pieces.
NextImproved == \E text \in Texts : ExtractImprovedCode(text)

SpecImproved == Init /\ [][NextImproved]_vars

\* The score extractor on every text of up to MaxTextLen pieces.
NextScore == \E text \in ScoreTexts : ExtractScore(text)

SpecScore == Init /\ [][NextScore]_vars

\* Reads through the router with every kind of credentials, while user rows
\* are deleted and time passes.
NextAuth ==
  \/ \E endpoint \in {"stats", "history"}, credentials \in Credentials :
        RouterRead(endpoint, credentials)
  \/ \E u \in UserIds : DeleteUser(u)
  \/ Tick

SpecAuth == Init /\ [][NextAuth]_vars

\* The roles table is edited, then the application is started, and started
\* again.
NextRoles ==
  \/ \E id \in RoleIds : AdminDeleteRole(id)
  \/ \E new \in RoleRows : AdminInsertRole(new)
  \/ CreateDefaultRoles

SpecRoles == Init /\ [][NextRoles]_vars

\* Submissions of every length around the snippet length, by both kinds of
\* caller, one at a time, with a database that can fail.
NextSnippet ==
  \/ \E r \in Req, c \in Callers, u \in {None, 1}, code \in SnippetCodes :
        Begin(r, c, u, code, NoKey, MaxRequests, TRUE)
  \/ \E r \in Req, up \in GoodUpstream : Gateway(r, up)
  \/ \E r \in Req, f \in BOOLEAN : PersistInsert(r, f)
  \/ \E r \in Req, f \in BOOLEAN : UpdateCounters(r, f)
  \/ \E r \in Req, f \in BOOLEAN : RouterExit(r, f)
  \/ \E r \in Req : DirectReturn(r)
  \/ \E r \in Req : Finish(r)

SpecSnippet == Init /\ [][NextSnippet]_vars

\* Users register with or without a key of their own, then requests go
\* through the router, in flight together, the key resolved by the handler.
NextCredential ==
  \/ \E u \in UserIds, stored \in StoredKeys : RegisterKey(u, stored)
  \/ \E r \in Req, u \in UserIds \cup {None} :
        Begin(r, "router", u, OkCode, get_user_api_key(u, gemini_api_key_encrypted),
              MaxRequests, FALSE)
  \/ \E r \in Req, up \in GoodUpstream : Gateway(r, up)
  \/ \E r \in Req : PersistInsert(r, FALSE)
  \/ \E r \in Req : UpdateCounters(r, FALSE)
  \/ \E r \in Req : RouterExit(r, FALSE)
  \/ \E r \in Req : Finish(r)

SpecCredential == Init /\ [][NextCredential]_vars

\* Calls of atender, in flight together, with every customer name.
NextAtencion ==
  \/ \E c \in Calls, db \in BOOLEAN, customer_name \in CustomerNames :
        AtenderSelect(c, db, customer_name)
  \/ \E c \in Calls : AtenderCommit(c)

SpecAtencion == Init /\ [][NextAtencion]_vars

\* The classification-text extractor on every response.
NextJson == \E data \in Responses : ExtractClassificationText(data)

SpecJson == Init /\ [][NextJson]_vars

\* ----------------------------------------------------------------- types
TypeOK ==
  /\ clock \in TicksPerDay..MaxClock
  /\ tz \in {0, TzShift}
  /\ \A u \in UserIds :
       users[u] = NoUser
       \/ (users[u].analyses_today \in Nat /\ users[u].total_analyses \in Nat)
  /\ \A a \in analyses : a.user_id \in UserIds /\ a.id \in 1..(nextId - 1)
  /\ \A r \in Req : pc[r] \in {"idle", "gateway", "persist", "counters",
                               "returned", "done"}


\* ---------------------------------------------------------------- helpers
RowsOf(u) == { a \in analyses : a.user_id = u }
Returned(r) == pc[r] \in {"returned", "done"}
RowInDb(r) == sess[r].row # NoRow /\ sess[r].row \in analyses

\* ================================================================= claims

\* C1: for every analyze request of an authenticated user through the router,
\* the committed database holds the request's Analysis row exactly when it
\* holds the request's counter update, whether the insert failed, the counter
\* update failed after the flush, or the commit failed.
C1_BothOrNeither ==
  \A r \in Req :
    /\ RowInDb(r) <=> obs[r].counters_committed
    /\ obs[r].counters_committed =>
         /\ users[req[r].usuario_id].total_analyses >= 1
         /\ users[req[r].usuario_id].last_analysis_date # None
    /\ pc[r] # "done" => ~RowInDb(r)

\* C1 witness: a request whose counter update failed after its row was
\* flushed has ended, and the row is not in the database.
C1_Witness ==
  \E r \in Req :
    /\ pc[r] = "done" /\ obs[r].persist_failed
    /\ sess[r].row # NoRow /\ ~RowInDb(r)

\* C2: two analyze requests of the same user that both commit on the same
\* calendar day leave analyses_today and total_analyses grown by 2 (the
\* users start at 0 and these two rows are the user's only ones).
C2_NoLostUpdate ==
  \A r1, r2 \in Req :
    ( /\ r1 # r2
      /\ pc[r1] = "done" /\ pc[r2] = "done"
      /\ obs[r1].row_committed /\ obs[r2].row_committed
      /\ req[r1].usuario_id = req[r2].usuario_id
      /\ Cardinality(RowsOf(req[r1].usuario_id)) = 2
      /\ obs[r1].today_at_update = obs[r2].today_at_update )
    => /\ users[req[r1].usuario_id].total_analyses = 2
       /\ users[req[r1].usuario_id].analyses_today = 2

\* C3: with requests executed one at a time, every user's total_analyses
\* equals the number of Analysis rows the user owns, in every committed state.
C3_TotalMatchesRows ==
  \A u \in UserIds : users[u].total_analyses = Cardinality(RowsOf(u))

\* C3 witness: a user has a row, and a request whose persistence failed
\* after the flush has ended.
C3_Witness ==
  /\ \E u \in UserIds : Cardinality(RowsOf(u)) >= 1
  /\ \E r \in Req : pc[r] = "done" /\ obs[r].persist_failed /\ sess[r].row # NoRow

\* C4: a user whose role has a positive daily limit never has analyses_today
\* above that limit.
C4_QuotaEnforced ==
  \A u \in UserIds : RoleLimit(u) > 0 => users[u].analyses_today <= RoleLimit(u)

\* C5: when the gateway call failed, analyze returns the generic failure
\* envelope and stages neither an Analysis row nor a counter change.
C5_GatewayFailureFails ==
  \A r \in Req :
    (Returned(r) /\ obs[r].gateway_failed) =>
      /\ ~result[r].envelope.success
      /\ result[r].envelope.error = "generic"
      /\ sess[r].row = NoRow
      /\ ~sess[r].dirty

\* C6: the upstream error detail appears neither in an envelope nor in a
\* stored analysis_result, and two requests that differ only in the upstream
\* error detail get the same success flag, error text and analysis text.
C6_NoUpstreamLeak ==
  /\ \A r \in Req : result[r].envelope.analisis.detail = "none"
  /\ \A a \in analyses : a.analysis_result.detail = "none"
  /\ \A r1, r2 \in Req :
       ( /\ Returned(r1) /\ Returned(r2)
         /\ req[r1] = req[r2]
         /\ obs[r1].gateway_failed /\ obs[r2].gateway_failed
         /\ obs[r1].persist_failed = obs[r2].persist_failed )
       => /\ result[r1].envelope.success = result[r2].envelope.success
          /\ result[r1].envelope.error = result[r2].envelope.error
          /\ result[r1].envelope.analisis = result[r2].envelope.analisis

\* C7: when persisting failed, analyze ends by raising AnalysisPersistenceError
\* to its caller instead of returning an envelope.
C7_PersistenceErrorRaised ==
  \A r \in Req :
    (Returned(r) /\ obs[r].persist_failed) =>
      result[r].raised = "AnalysisPersistenceError"

\* C8: a request that returned success = true with an analysis_id has that
\* Analysis row committed once the request has ended.
C8_NoDeceptiveSuccess ==
  \A r \in Req :
    ( /\ pc[r] = "done"
      /\ result[r].envelope.success
      /\ result[r].envelope.analysis_id # None )
    => \E a \in analyses : a.id = result[r].envelope.analysis_id

\* C9: after one persisted analysis, analyses_today is 1 if the previous
\* last_analysis_date was absent or on another day than today and the previous
\* value + 1 otherwise, total_analyses is the previous value + 1, and
\* last_analysis_date is the instant of the update.
C9_CounterRule ==
  \A r \in Req :
    (pc[r] = "done" /\ obs[r].row_committed) =>
      LET old == sess[r].loaded
          new == users[req[r].usuario_id]
      IN /\ new.analyses_today =
              IF old.last_analysis_date = None
                 \/ DateOf(old.last_analysis_date) # obs[r].today_at_update
              THEN 1 ELSE old.analyses_today + 1
         /\ new.total_analyses = old.total_analyses + 1
         /\ new.last_analysis_date = obs[r].updated_at
         /\ obs[r].today_at_update = DateOf(obs[r].updated_at)

\* C9 witness: a user who had analyses on an earlier day has one persisted
\* today, and analyses_today is back at 1.
C9_Witness ==
  \E r \in Req :
    /\ pc[r] = "done" /\ obs[r].row_committed
    /\ sess[r].loaded.analyses_today >= 1
    /\ users[req[r].usuario_id].analyses_today = 1
    /\ users[req[r].usuario_id].total_analyses = 2

\* C10: for every user with a last_analysis_date, analyses_today equals the
\* number of the user's rows whose created_at is on the calendar day of
\* last_analysis_date.
C10_TodayMatchesRows ==
  \A u \in UserIds :
    users[u].last_analysis_date # None =>
      users[u].analyses_today =
        Cardinality({ a \in RowsOf(u) :
                        DateOf(a.created_at) = DateOf(users[u].last_analysis_date) })

\* C11: analyze returns the empty-input failure envelope for empty or
\* whitespace-only code and the over-length failure envelope for code longer
\* than MAX_CODE_LENGTH, never raising; non-blank code of at most
\* MAX_CODE_LENGTH characters reaches the gateway and, when the gateway
\* answered and persistence did not fail, yields success.
C11_Validation ==
  \A r \in Req :
    (Returned(r) /\ obs[r].http # 422) =>
      LET code == req[r].code
          env == result[r].envelope
      IN /\ result[r].raised = "none"
         /\ (code.len = 0 \/ code.blank) =>
               (env = FailureEnvelope("empty") /\ obs[r].gateway_calls = 0)
         /\ (~code.blank /\ code.len > MAX_CODE_LENGTH) =>
               (env = FailureEnvelope("toolong") /\ obs[r].gateway_calls = 0)
         /\ (~code.blank /\ code.len >= 1 /\ code.len <= MAX_CODE_LENGTH) =>
               /\ obs[r].gateway_calls = 1
               /\ (~obs[r].gateway_failed /\ ~obs[r].persist_failed) => env.success

\* C11 witness: non-blank code of exactly MAX_CODE_LENGTH characters was
\* analysed with a working gateway and the caller got success.
C11_Witness ==
  \E r \in Req :
    /\ Returned(r)
    /\ req[r].code.len = MAX_CODE_LENGTH /\ ~req[r].code.blank
    /\ ~obs[r].gateway_failed
    /\ result[r].envelope.success

\* C12: the steps of analyze happen in the order validate, gateway call,
\* extraction and persistence, result. The gateway is called only for code
\* that passed validation and before any result; the Analysis row is flushed
\* only after the gateway returned, the counters are touched only after the
\* row, a commit happens only after a success result; a request whose code
\* fails validation never calls the gateway and writes no row and no counter.
C12_StepOrder ==
  [][\A r \in Req :
       LET bad == req'[r].code.len = 0 \/ req'[r].code.blank
                  \/ req'[r].code.len > MAX_CODE_LENGTH
       IN
       /\ obs'[r].gateway_calls > obs[r].gateway_calls =>
            /\ pc[r] = "gateway" /\ result[r] = NoResult
            /\ ~req[r].code.blank
            /\ req[r].code.len >= 1 /\ req[r].code.len <= MAX_CODE_LENGTH
       /\ (sess[r].row = NoRow /\ sess'[r].row # NoRow) =>
            (obs[r].gateway_calls = 1 /\ sess[r].text # NoText /\ result[r] = NoResult)
       /\ (~sess[r].dirty /\ sess'[r].dirty) => sess[r].row # NoRow
       /\ (result[r] = NoResult /\ result'[r] # NoResult /\ result'[r].envelope.success) =>
            (obs[r].gateway_calls = 1 /\ pc[r] \in {"persist", "counters"})
       /\ (~obs[r].row_committed /\ obs'[r].row_committed) =>
            (pc[r] = "returned" /\ result[r].envelope.success)
       /\ (pc'[r] # "idle" /\ obs'[r].http # 422 /\ bad) =>
            /\ obs'[r].gateway_calls = 0
            /\ sess'[r].row = NoRow /\ ~sess'[r].dirty
            /\ ~result'[r].envelope.success
            /\ (pc[r] # "idle" => (users' = users /\ analyses' = analyses))
    ]_vars

\* C12 witness: one request went through every step and its row is
\* committed, and a request whose code failed validation has ended without a
\* gateway call.
C12_Witness ==
  /\ analyses # {}
  /\ \E r \in Req :
       /\ pc[r] = "done" /\ obs[r].http # 422
       /\ result[r].envelope.error \in {"empty", "toolong"}
       /\ obs[r].gateway_calls = 0

\* C13: while an analyze request without a user id, or one whose service has
\* no database session, is being served (one request at a time), no Analysis
\* row is added and no user's analyses_today, total_analyses or
\* last_analysis_date changes; the request stages no row and no counter
\* change, persistence cannot fail it, and once the gateway has returned it
\* ends with a success envelope that carries no analysis_id.
C13_AnonymousNoWrites ==
  [][\A r \in Req :
       (pc[r] # "idle" /\ (req[r].usuario_id = None \/ ~req[r].db)) =>
         /\ users' = users
         /\ analyses' = analyses
         /\ nextId' = nextId
         /\ sess'[r].row = NoRow /\ ~sess'[r].dirty
         /\ ~obs'[r].persist_failed
         /\ (obs'[r].gateway_calls = 1 /\ pc'[r] \in {"returned", "done"}) =>
              (result'[r].envelope.success /\ result'[r].envelope.analysis_id = None)
    ]_vars

\* C13 witness: two requests have been started; the one that ended last had
\* no user id or no database session and got success without an analysis_id,
\* and the tables are as they were at the start.
C13_Witness ==
  /\ started = 2
  /\ analyses = {}
  /\ \A u \in UserIds : users[u] = NewUser
  /\ \E r \in Req :
       /\ pc[r] = "done"
       /\ req[r].usuario_id = None \/ ~req[r].db
       /\ result[r].envelope.success
       /\ result[r].envelope.analysis_id = None

\* C14: an authenticated request whose gateway text has no score line and/or
\* no improved-code block ends with success; its Analysis row is committed
\* with quality_score and code_improved absent exactly where the text lacks
\* them, and the user's counters advance by the same rule as for any persisted
\* analysis (analyses_today reset to 1 on a new day, else + 1;
\* total_analyses + 1), so that every user's total equals the user's rows.
C14_ExtractionMissPersists ==
  /\ \A u \in UserIds :
       pc = [r \in Req |-> "idle"] => users[u].total_analyses = Cardinality(RowsOf(u))
  /\ \A r \in Req :
       (pc[r] = "done" /\ (sess[r].text.score = None \/ ~sess[r].text.improved)) =>
         LET old == sess[r].loaded
             new == users[req[r].usuario_id]
         IN /\ result[r].envelope.success
            /\ result[r].envelope.analysis_id = sess[r].row.id
            /\ RowInDb(r)
            /\ Cardinality({ a \in analyses : a.id = sess[r].row.id }) = 1
            /\ (sess[r].row.quality_score = None) <=> (sess[r].text.score = None)
            /\ (sess[r].row.code_improved = None) <=> ~sess[r].text.improved
            /\ new.total_analyses = old.total_analyses + 1
            /\ new.analyses_today =
                 IF old.last_analysis_date = None
                    \/ DateOf(old.last_analysis_date) # obs[r].today_at_update
                 THEN 1 ELSE old.analyses_today + 1

\* C14 witness: a user's second analysis of the day came back without score
\* and without improved code; it is stored and both counters are 2.
C14_Witness ==
  \E r \in Req :
    /\ pc[r] = "done"
    /\ sess[r].text.score = None /\ ~sess[r].text.improved
    /\ RowInDb(r)
    /\ sess[r].row.quality_score = None /\ sess[r].row.code_improved = None
    /\ users[req[r].usuario_id].analyses_today = 2
    /\ users[req[r].usuario_id].total_analyses = 2

\* C15: every committed Analysis row has quality_score absent or within
\* 0..100; a request with a user and a session whose extracted score is above
\* 100 fails at persistence: it stages and commits no row and no counter
\* change, and its caller gets a failure (HTTP 400 through the router).
C15_ScoreRange ==
  /\ \A a \in analyses :
       a.quality_score = None \/ (a.quality_score >= 0 /\ a.quality_score <= 100)
  /\ \A r \in Req :
       ( /\ Returned(r)
         /\ req[r].db /\ req[r].usuario_id # None
         /\ sess[r].text.kind = "model" /\ sess[r].text.score > 100 )
       => /\ ~result[r].envelope.success
          /\ result[r].envelope.analysis_id = None
          /\ sess[r].row = NoRow /\ ~sess[r].dirty
          /\ ~obs[r].row_committed /\ ~obs[r].counters_committed
          /\ pc[r] = "done" => obs[r].http = 400

\* C15 witness: after a stored analysis, a request of the same user whose
\* text carries "Score de Calidad: 150/100" has ended with HTTP 400, and the
\* user still has one row and total_analyses = 1.
C15_Witness ==
  \E r \in Req :
    /\ pc[r] = "done"
    /\ req[r].usuario_id # None
    /\ sess[r].text.kind = "model" /\ sess[r].text.score = 150
    /\ obs[r].http = 400
    /\ Cardinality(RowsOf(req[r].usuario_id)) = 1
    /\ users[req[r].usuario_id].total_analyses = 1

\* C16: a request that finds the user row missing when it persists does not
\* fail: it returns success, its Analysis row is stored, and it changes no
\* counter.
C16_MissingUserSkipped ==
  \A r \in Req :
    (Returned(r) /\ obs[r].user_missing) =>
      /\ result[r].envelope.success
      /\ sess[r].row # NoRow
      /\ ~sess[r].dirty
      /\ pc[r] = "done" => (obs[r].http = 200 /\ RowInDb(r))

\* C17: the gateway is called with the user's key when one is supplied and
\* with the system key otherwise; and two finished requests of two fresh
\* users, one with a key and one without, that got the same gateway response
\* at the same instants have the same envelope (up to the row id), the same
\* HTTP status, the same stored row (up to id and owner) and the same
\* counters.
C17_KeyOnlyChangesCredential ==
  /\ \A r \in Req :
       obs[r].gateway_calls > 0 =>
         /\ req[r].user_api_key # NoKey =>
              (obs[r].credential = req[r].user_api_key /\ obs[r].credential # SystemKey)
         /\ req[r].user_api_key = NoKey => obs[r].credential = SystemKey
  /\ \A r1, r2 \in Req :
       ( /\ pc[r1] = "done" /\ pc[r2] = "done"
         /\ req[r1].user_api_key # NoKey /\ req[r2].user_api_key = NoKey
         /\ req[r1].usuario_id # req[r2].usuario_id
         /\ req[r1].code = req[r2].code
         /\ sess[r1].text = sess[r2].text
         /\ sess[r1].row.created_at = sess[r2].row.created_at
         /\ obs[r1].updated_at = obs[r2].updated_at )
       => /\ result[r1].raised = result[r2].raised
          /\ result[r1].envelope.success = result[r2].envelope.success
          /\ result[r1].envelope.error = result[r2].envelope.error
          /\ result[r1].envelope.analisis = result[r2].envelope.analisis
          /\ (result[r1].envelope.analysis_id = None) <=> (result[r2].envelope.analysis_id = None)
          /\ obs[r1].http = obs[r2].http
          /\ RowInDb(r1) <=> RowInDb(r2)
          /\ sess[r1].row.quality_score = sess[r2].row.quality_score
          /\ sess[r1].row.code_improved = sess[r2].row.code_improved
          /\ sess[r1].row.analysis_result = sess[r2].row.analysis_result
          /\ users[req[r1].usuario_id] = users[req[r2].usuario_id]

\* C17 witness: a request with the user's key and a request without one got
\* the same text at the same instants, both rows are stored, and the first
\* was sent with the user's key.
C17_Witness ==
  \E r1, r2 \in Req :
    /\ pc[r1] = "done" /\ pc[r2] = "done"
    /\ req[r1].user_api_key = UserKey /\ req[r2].user_api_key = NoKey
    /\ obs[r1].credential = UserKey /\ obs[r2].credential = SystemKey
    /\ sess[r1].text = sess[r2].text
    /\ sess[r1].row.created_at = sess[r2].row.created_at
    /\ obs[r1].updated_at = obs[r2].updated_at
    /\ RowInDb(r1) /\ RowInDb(r2)

\* C18: a request calls the gateway at most once, and a request whose gateway
\* call failed ends as a failure: a failure envelope, HTTP 400 through the
\* router.
C18_SingleAttemptThenFailure ==
  \A r \in Req :
    /\ obs[r].gateway_calls <= 1
    /\ (pc[r] = "done" /\ obs[r].gateway_failed) =>
         (~result[r].envelope.success /\ obs[r].http = 400)

\* C19: the statistics report daily_limit = the role's max_analyses_per_day
\* (0 included), or 5 for a user without role, and remaining =
\* max(0, daily_limit - today) for the user's analyses_today; remaining is
\* never negative.
C19_Remaining ==
  view.kind = "stats" =>
    LET today == view.input.user.analyses_today
        limit == IF view.input.role = NoRole THEN 5
                 ELSE view.input.role.max_analyses_per_day
    IN /\ view.data.limite_diario = limit
       /\ view.data.analisis_hoy = today
       /\ view.data.analisis_restantes >= 0
       /\ limit - today >= 0 => view.data.analisis_restantes = limit - today
       /\ limit - today < 0 => view.data.analisis_restantes = 0

\* C19 witness: a free-plan user with six analyses today is told that none
\* remain.
C19_Witness ==
  /\ view.kind = "stats"
  /\ view.input.role = Role("free", FREE_MAX_ANALYSES_PER_DAY)
  /\ view.input.user.analyses_today = 6
  /\ view.data.analisis_restantes = 0

\* C20: a history response for user u with limit and offset, read while the
\* user's N analyses stay as they are, has total = N and exactly
\* min(limit, max(0, N - offset)) items; the items are distinct rows of u, in
\* descending order of created_at, and the i-th item has rank offset + i in
\* that order; rows of other users are neither returned nor counted.
C20_HistoryPage ==
  (view.kind = "history" /\ view.input.at_count = view.input.at_page) =>
    LET u == view.usuario_id
        mine == { a \in view.input.at_page : a.user_id = u }
        N == Cardinality(mine)
        limit == view.input.limit
        offset == view.input.offset
        rest == IF N - offset > 0 THEN N - offset ELSE 0
        items == view.data.items
        k == Len(items)
    IN /\ view.data.total = N
       /\ k = IF limit < rest THEN limit ELSE rest
       /\ \A i \in 1..k :
            \E a \in mine : /\ a.id = items[i].id
                            /\ a.created_at = items[i].created_at
                            /\ a.quality_score = items[i].score
       /\ \A i \in 1..k : \A a \in view.input.at_page :
            a.id = items[i].id => a.user_id = u
       /\ \A i, j \in 1..k : i # j => items[i].id # items[j].id
       /\ \A i, j \in 1..k : i < j => items[i].created_at >= items[j].created_at
       /\ \A i \in 1..k :
            /\ Cardinality({ a \in mine : a.created_at > items[i].created_at })
                 <= offset + i - 1
            /\ Cardinality({ a \in mine : a.created_at >= items[i].created_at })
                 >= offset + i

\* C20 witness: user 1 has two analyses made at different instants and
\* another user has one; the page with limit 2 at offset 1 holds the older
\* of the two, and total is 2.
C20_Witness ==
  /\ view.kind = "history" /\ view.input.at_count = view.input.at_page
  /\ view.input.limit = 2 /\ view.input.offset = 1
  /\ view.data.total = 2 /\ Len(view.data.items) = 1
  /\ Cardinality(view.input.at_page) = 3
  /\ \E a \in view.input.at_page :
       a.user_id = view.usuario_id /\ a.created_at > view.data.items[1].created_at

\* C21: in every step of analyze, get_statistics and get_history every
\* committed Analysis row stays in the table with all its fields, so each
\* user's rows only grow; a step adds a row only when it commits a successful
\* authenticated request, and then it adds exactly that request's one row,
\* under an id no other row has.
C21_RowsOnlyGrow ==
  [][/\ \A a \in analyses : a \in analyses'
     /\ \A a, b \in analyses' : a.id = b.id => a = b
     /\ \A r \in Req :
          (~obs[r].row_committed /\ obs'[r].row_committed) =>
            /\ result[r].envelope.success
            /\ req[r].usuario_id # None
            /\ sess[r].row \notin analyses
            /\ analyses' = analyses \cup {sess[r].row}
            /\ sess[r].row.user_id = req[r].usuario_id
     /\ (\A r \in Req : obs[r].row_committed \/ ~obs'[r].row_committed)
          => analyses' = analyses
     /\ view' # view => analyses' = analyses
    ]_vars

\* C21 witness: a user has two rows, and the history has been read since
\* the second was committed.
C21_Witness ==
  /\ \E u \in UserIds : Cardinality(RowsOf(u)) = 2
  /\ view.kind = "history"
  /\ Cardinality(view.input.at_page) = 2

\* C22: the improved-code extractor returns not-found exactly when no heading
\* of any form is followed by a closed ```python fence; otherwise the pattern
\* that decides is the first of the three (most specific first) whose heading
\* form occurs before such a fence, and the result is the stripped content
\* of the first ```python fence after the leftmost heading of that form, even
\* when a looser heading form stands before an earlier block; a second call
\* on the same text returns the same.
C22_PatternPrecedence ==
  view.kind = "improved_code" =>
    LET chars == Flatten(view.input)
        n == Len(chars)
        IsHead(i, k) == \/ chars[i] = "h1"
                        \/ chars[i] = "h2" /\ k >= 2
                        \/ chars[i] = "h3" /\ k >= 3
        Closed(j) == chars[j] = "fpy"
                     /\ \E l \in (j + 1)..n : chars[l] \in {"fpy", "fjs", "fence"}
        Heads(k) == { i \in 1..n : IsHead(i, k) /\ \E j \in (i + 1)..n : Closed(j) }
        res == view.data.first
    IN /\ view.data.second = res
       /\ res.found <=> Heads(3) # {}
       /\ ~res.found => res.code = <<>>
       /\ res.found =>
            \E k \in 1..3 :
              /\ Heads(k) # {}
              /\ \A h \in 1..(k - 1) : Heads(h) = {}
              /\ \E i \in Heads(k), j \in 1..n, l \in 1..n :
                   /\ \A y \in Heads(k) : i <= y
                   /\ i < j /\ Closed(j)
                   /\ \A y \in (i + 1)..(j - 1) : ~Closed(y)
                   /\ j < l /\ chars[l] \in {"fpy", "fjs", "fence"}
                   /\ \A y \in (j + 1)..(l - 1) : chars[y] \notin {"fpy", "fjs", "fence"}
                   /\ Len(res.code) <= l - j - 1
                   /\ (Len(res.code) > 0 =>
                         (res.code[1] # "ws" /\ res.code[Len(res.code)] # "ws"))
                   /\ \E a \in j..(l - 1) :
                        /\ \A y \in (j + 1)..a : chars[y] = "ws"
                        /\ \A y \in 1..Len(res.code) : res.code[y] = chars[a + y]
                        /\ \A y \in (a + Len(res.code) + 1)..(l - 1) : chars[y] = "ws"

\* C22 witness: the bare heading stands before a first block and the
\* marker-and-prefix heading before a second; the second block is returned.
C22_Witness ==
  /\ view.kind = "improved_code"
  /\ view.input = <<"h3", "py1", "h1", "py2">>
  /\ view.data.first = [found |-> TRUE, code |-> <<"b2">>]

\* C23: the score extractor returns the number N of the first piece of the
\* text that carries the exact label followed by N/100, as an integer and
\* as it stands (0, 7 for "07", 85, 100, and 150 unclamped), and not-found
\* when no piece does: the label in lower case or a number over 10 does not
\* count.
C23_FirstScore ==
  view.kind = "score" =>
    LET text == view.input
        Value(piece) == CASE piece = "score0" -> 0
                          [] piece = "score85" -> 85
                          [] piece = "score100" -> 100
                          [] piece = "score150" -> 150
                          [] piece = "score07" -> 7
                          [] piece = "score85tight" -> 85
                          [] OTHER -> None
        hits == { i \in 1..Len(text) : Value(text[i]) # None }
    IN /\ view.data.found <=> hits # {}
       /\ ~view.data.found => view.data.score = None
       /\ view.data.found =>
            \E i \in hits : /\ \A y \in hits : i <= y
                             /\ view.data.score = Value(text[i])

\* C23 witness: after a lower-case label with 85/100, the text carries the
\* exact label with 150/100 and then with 85/100; 150 is returned.
C23_Witness ==
  /\ view.kind = "score"
  /\ view.input = <<"lower85", "score150", "score85">>
  /\ view.data = [found |-> TRUE, score |-> 150]

\* C24: for a response whose first candidate's first part is a text, the
\* classification-text extractor returns the trimmed content of the first
\* closed ```json fence if there is one; otherwise the span from the first
\* "{" to the last "}" if a "}" follows a "{" (a bare object comes back
\* unchanged); otherwise the stripped text; for a response without
\* candidates or without a text as first part it returns the empty string.
C24_ClassificationText ==
  view.kind = "classification_text" =>
    LET out == view.data
        full == Flatten(view.input.text)
        n == Len(full)
        IsFence(j) == full[j] = "fjson"
                      /\ \E l \in (j + 1)..n : full[l] \in {"fjson", "fence"}
        IsOpen(i) == full[i] = "lb" /\ \E l \in (i + 1)..n : full[l] = "rb"
    IN IF view.input.shape # "text_first" THEN out = <<>>
       ELSE IF \E j \in 1..n : IsFence(j)
       THEN \E j \in 1..n, l \in 1..n :
              /\ IsFence(j) /\ \A y \in 1..(j - 1) : ~IsFence(y)
              /\ l > j /\ full[l] \in {"fjson", "fence"}
              /\ \A y \in (j + 1)..(l - 1) : full[y] \notin {"fjson", "fence"}
              /\ out = Strip(SubSeq(full, j + 1, l - 1))
       ELSE IF \E i \in 1..n : IsOpen(i)
       THEN \E i \in 1..n, l \in 1..n :
              /\ full[i] = "lb" /\ \A y \in 1..(i - 1) : full[y] # "lb"
              /\ full[l] = "rb" /\ \A y \in (l + 1)..n : full[y] # "rb"
              /\ out = SubSeq(full, i, l)
       ELSE out = Strip(full)

\* C24 witness: prose, then a ```json fence with an object and its closing
\* fence: the object is returned.
C24_Witness ==
  /\ view.kind = "classification_text"
  /\ view.input = Response("text_first", <<"x", "fjson", "obj", "fence">>)
  /\ view.data = <<"lb", "x", "rb">>

\* C25: a request to /stats or /history without credentials is answered 401
\* by the authentication dependency and the handler body does not run.
C25_ReadsRequireAuth ==
  (view.kind = "router_read" /\ view.input.credentials.kind = "absent") =>
    (view.data.http = 401 /\ ~view.data.handler_ran)

C27_TodayFollowsCalendar ==
  (/\ view.kind = "stats"
   /\ view.input.user.last_analysis_date # None
   /\ DateOf(view.input.user.last_analysis_date) # view.input.today) =>
    /\ view.data.analisis_hoy = 0
    /\ view.data.analisis_restantes = view.data.limite_diario

\* C28: the code field of every failure envelope (empty or blank input,
\* over-length input, processing failure) is at most as long as a snippet
\* of 100 characters plus the ellipsis.
C28_FailureSnippetTruncated ==
  \A r \in Req :
    (Returned(r) /\ ~result[r].envelope.success /\ result[r].raised = "none"
     /\ result[r].envelope.error \in {"empty", "toolong", "generic"}) =>
      /\ obs[r].codigo_len # None
      /\ obs[r].codigo_len <= SNIPPET_LENGTH + ELLIPSIS_LENGTH

\* C29: a request through the router is never turned away because of the
\* user's stored key: it goes on to the gateway, which is called with the
\* user's key when the stored key decrypts, and with the system key when
\* the user has no stored key, when the stored key does not decrypt, and
\* for an anonymous caller.
C29_CredentialResolution ==
  \A r \in Req :
    pc[r] # "idle" =>
      LET u == req[r].usuario_id
          stored == IF u = None THEN NoStoredKey ELSE gemini_api_key_encrypted[u]
      IN /\ pc[r] = "gateway" \/ obs[r].gateway_calls = 1
         /\ obs[r].http \in {0, 200}
         /\ obs[r].gateway_calls = 1 =>
              obs[r].credential = IF stored = "valid-token" THEN UserKey ELSE SystemKey

\* C29 witness: a finished request of a user whose stored key does not
\* decrypt was served with the system key, beside one served with the
\* user's own key.
C29_Witness ==
  \E r \in Req :
    /\ pc[r] = "done" /\ req[r].usuario_id # None
    /\ gemini_api_key_encrypted[req[r].usuario_id] = "invalid-token"
    /\ obs[r].credential = SystemKey /\ obs[r].http = 200
    /\ \E q \in Req :
         /\ pc[q] = "done" /\ req[q].usuario_id # None
         /\ gemini_api_key_encrypted[req[q].usuario_id] = "valid-token"
         /\ obs[q].credential = UserKey /\ obs[q].http = 200

\* C30: after any calls of atender, in any interleaving, no two rows of the
\* clients table have the same name.
C30_ClientNamesUnique ==
  \A i, j \in DOMAIN clients : i # j => clients[i] # clients[j]

====
